---- MODULE Spec2Model ----
(***************************************************************************)
(* Ecosystem-in-a-bottle simulation (v2, refactored engine) and its Monte  *)
(* Carlo harness.                                                          *)
(*                                                                         *)
(* Number representation.  The program computes on f32.  A quantity held   *)
(* in the state (biomass, population, pH, percentages, ...) is modelled as *)
(* an integer count of thousandths (Unit = 1000 stands for 1.0), and a     *)
(* dimensionless multiplier (rate constant, efficiency, penalty, dt) as an *)
(* integer count of millionths (One = 1000000 stands for 1.0).  A product  *)
(* quantity * multiplier is rounded to the nearest thousandth.             *)
(***************************************************************************)
EXTENDS Integers, Sequences, FiniteSets, TLC

Unit == 1000
One == 1000000

Min(a, b) == IF a <= b THEN a ELSE b
Max(a, b) == IF a >= b THEN a ELSE b
Abs(a) == IF a < 0 THEN 0 - a ELSE a

\* f32 product a * f of two non-negative numbers, f (and the result's lost
\* digits) in millionths; evaluated in base 1000 so that no intermediate
\* exceeds the 32-bit integers of the checker.
Mul(a, f) ==
    LET a1 == a \div 1000
        a0 == a % 1000
        f1 == f \div 1000
        f0 == f % 1000
    IN  a1 * f1 + ((a1 * f0 + a0 * f1) + ((a0 * f0 + 500000) \div 1000)) \div 1000

\* f32::exp(-x) for x >= 0 given in millionths, result in millionths:
\* (1 - x/1024)^1024 by ten squarings.
RECURSIVE SquareTimes(_, _)
SquareTimes(y, n) == IF n = 0 THEN y ELSE SquareTimes(Mul(y, y), n - 1)

ExpNeg(x) == IF x >= 30 * One THEN 0 ELSE SquareTimes(Max(One - x \div 1024, 0), 10)

(***************************************************************************)
(* v2/types.rs : validated quantities.  A constructor returns              *)
(* [ok |-> TRUE, v |-> value] or [ok |-> FALSE, err |-> kind].             *)
(***************************************************************************)
\* enum ValidationError
ValidationError ==
    {"NegativeValue", "ZeroOrNegativePopulation", "PhOutOfRange",
     "TemperatureOutOfRange", "HumidityOutOfRange"}

Ok(v) == [ok |-> TRUE, v |-> v, err |-> "none"]
Err(e) == [ok |-> FALSE, v |-> 0, err |-> e]

Biomass_new(value) == IF value < 0 THEN Err("NegativeValue") ELSE Ok(value)

Biomass_is_collapsed(b) == b <= 10

Population_new_accepts_zero(value) ==
    IF value < 0 THEN Err("ZeroOrNegativePopulation") ELSE Ok(value)

Population_new(value) ==
    IF value <= 0 THEN Err("ZeroOrNegativePopulation") ELSE Ok(value)

Population_is_collapsed(p) == p <= 10

Ph_new(value) ==
    IF ~(0 <= value /\ value <= 14 * Unit) THEN Err("PhOutOfRange") ELSE Ok(value)

Temperature_new_exclusive(value) ==
    IF ~(0 - 50 * Unit <= value /\ value < 60 * Unit)
    THEN Err("TemperatureOutOfRange") ELSE Ok(value)

Temperature_new(value) ==
    IF ~(0 - 50 * Unit <= value /\ value <= 60 * Unit)
    THEN Err("TemperatureOutOfRange") ELSE Ok(value)

Temperature_is_optimal(t) == 20 * Unit <= t /\ t <= 28 * Unit

Humidity_new(value) ==
    IF ~(0 <= value /\ value <= 100 * Unit) THEN Err("HumidityOutOfRange") ELSE Ok(value)

Oxygen_new(value) == IF value < 0 THEN Err("NegativeValue") ELSE Ok(value)

Oxygen_is_dangerously_low(o) == o < 5 * Unit

\* impl_positive_value!: CarbonDioxide, Nitrogen, WaterVolume, Moisture,
\* Aeration, Detritus
PositiveValue_new(value) == IF value < 0 THEN Err("NegativeValue") ELSE Ok(value)

CarbonDioxide_new(value) == PositiveValue_new(value)
Nitrogen_new(value) == PositiveValue_new(value)
WaterVolume_new(value) == PositiveValue_new(value)
Moisture_new(value) == PositiveValue_new(value)
Aeration_new(value) == PositiveValue_new(value)
Detritus_new(value) == PositiveValue_new(value)

(***************************************************************************)
(* v2/environmental.rs : response functions, results in millionths.        *)
(***************************************************************************)
\* (d/1000)^2 / k for a distance d in thousandths, in millionths
SquaredOver(d, k) ==
    LET d1 == d \div 1000
        d0 == d % 1000
    IN  ((d1 * d1) \div k) * One
        + (((d1 * d1) % k) * One + 2 * d1 * d0 * 1000 + d0 * d0) \div k

\* f32::exp(-x) is 0.0 when e^-x is below half the least positive f32,
\* 2^-150: x > 150 ln 2 = 103.972077 (x in millionths)
ExpUnderflow == 103972077
exp_is_zero(x) == x > ExpUnderflow

temperature_efficiency(temp) == ExpNeg(SquaredOver(Abs(temp - 24 * Unit), 32))

humidity_efficiency(humidity) == Min(humidity * 10, One)

light_efficiency(light_level) ==
    IF light_level >= 6 * Unit THEN One ELSE (light_level * 1000 + 3) \div 6

nutrient_efficiency(nitrogen) ==
    IF nitrogen >= 2 * Unit THEN One ELSE nitrogen * 500

competition_factor(biomass) ==
    IF biomass >= 100 * Unit THEN 0 ELSE One - biomass * 10

moisture_efficiency(moisture) ==
    IF moisture >= 2 * Unit THEN One ELSE moisture * 500

ph_efficiency(ph) == ExpNeg(SquaredOver(Abs(ph - 7 * Unit), 8))

oxygen_efficiency(oxygen) ==
    IF oxygen >= 21 * Unit THEN One ELSE (oxygen * 1000 + 10) \div 21

detritus_availability(detritus) ==
    IF detritus >= 2 * Unit THEN One ELSE detritus * 500

toxicity_factor(toxicity) == 0

water_oxygen_efficiency(water_oxygen) ==
    IF water_oxygen >= 21 * Unit THEN One ELSE (water_oxygen * 1000 + 10) \div 21

ph_penalty_factor(ph) ==
    IF ph < 6500 THEN ((6500 - ph) * 100000 + 325) \div 650 ELSE 0

oxygen_penalty_factor(oxygen) ==
    IF Oxygen_is_dangerously_low(oxygen) THEN (5 * Unit - oxygen) * 200 ELSE 0

water_oxygen_penalty_factor(water_oxygen) ==
    IF water_oxygen < 5 * Unit THEN (5 * Unit - water_oxygen) * 200 ELSE 0

(***************************************************************************)
(* rand::rngs::StdRng as the program uses it: a generator state, advanced  *)
(* by every draw; the value drawn is a function of the state.              *)
(***************************************************************************)
RngNext(s) == (25173 * s + 13849) % 65536

RECURSIVE RngAdvance(_, _)
RngAdvance(s, n) == IF n = 0 THEN s ELSE RngAdvance(RngNext(s), n - 1)

\* StdRng::seed_from_u64
seed_from_u64(seed) == seed % 65536

\* the value of the n-th draw from state s with rng.gen_range(lo..=hi)
gen_range(s, n, lo, hi) == lo + ((RngAdvance(s, n) \div 64) * (hi - lo)) \div 1023

\* the value of the n-th draw from state s with rng.gen::<u64>()
gen_u64(s, n) == RngAdvance(s, n)

(***************************************************************************)
(* v2/config : difficulty, parameters, organisms, environment.             *)
(***************************************************************************)
DifficultyConfig_new_growth_bonus(level) ==
    IF ~(0 <= level /\ level <= One)
    THEN Err("ConfigurationError")
    ELSE Ok([level |-> level,
             scaling |-> [photosynthesis_penalty |-> Mul(level, 700000),
                          respiration_increase |-> Mul(level, 2 * One),
                          growth_penalty |-> Mul(One - level, 700000),
                          death_rate_increase |-> Mul(level, 1500000),
                          buffer_reduction |-> Mul(level, 800000)]])

DifficultyConfig_new(level) ==
    IF ~(0 <= level /\ level <= One)
    THEN Err("ConfigurationError")
    ELSE Ok([level |-> level,
             scaling |-> [photosynthesis_penalty |-> Mul(level, 700000),
                          respiration_increase |-> Mul(level, 2 * One),
                          growth_penalty |-> Mul(level, 700000),
                          death_rate_increase |-> Mul(level, 1500000),
                          buffer_reduction |-> Mul(level, 800000)]])

DifficultyConfig_validate(d) == 0 <= d.level /\ d.level <= One

DifficultyConfig_default == DifficultyConfig_new(500000).v

SimulationParameters_default ==
    [photosynthesis |-> [base_rate |-> 100000, co2_efficiency |-> 1500000],
     respiration |-> [base_rate |-> 2000, co2_production |-> One],
     microbial |-> [nitrogen_fixation_rate |-> 8000, growth_rate |-> 10000,
                    death_rate |-> 5000, respiration_rate |-> 1000,
                    respiration_co2_ratio |-> One],
     worm |-> [aeration_rate |-> 10000, decomposition_rate |-> 10000,
               growth_rate |-> 10000, death_rate |-> 5000],
     shrimp |-> [detritus_consumption_rate |-> 10000, waste_production_rate |-> 5000,
                 growth_rate |-> 10000, death_rate |-> 5000],
     environmental |-> [ph_acidification_rate |-> 1000, rock_buffer_rate |-> 2000,
                        water_buffer_rate |-> 1000, plant_nitrogen_uptake |-> 2000]]

apply_difficulty(p, difficulty) ==
    LET scaling == difficulty.scaling IN
    [photosynthesis |->
        [base_rate |-> Mul(p.photosynthesis.base_rate, One - scaling.photosynthesis_penalty),
         co2_efficiency |-> Mul(p.photosynthesis.co2_efficiency,
                                One - Mul(scaling.photosynthesis_penalty, 500000))],
     respiration |->
        [base_rate |-> Mul(p.respiration.base_rate, One + scaling.respiration_increase),
         co2_production |-> p.respiration.co2_production],
     microbial |->
        [nitrogen_fixation_rate |-> p.microbial.nitrogen_fixation_rate,
         growth_rate |-> Mul(p.microbial.growth_rate, One - scaling.growth_penalty),
         death_rate |-> Mul(p.microbial.death_rate, One + scaling.death_rate_increase),
         respiration_rate |-> p.microbial.respiration_rate,
         respiration_co2_ratio |-> p.microbial.respiration_co2_ratio],
     worm |->
        [aeration_rate |-> p.worm.aeration_rate,
         decomposition_rate |-> p.worm.decomposition_rate,
         growth_rate |-> Mul(p.worm.growth_rate, One - scaling.growth_penalty),
         death_rate |-> Mul(p.worm.death_rate, One + scaling.death_rate_increase)],
     shrimp |->
        [detritus_consumption_rate |-> p.shrimp.detritus_consumption_rate,
         waste_production_rate |-> p.shrimp.waste_production_rate,
         growth_rate |-> Mul(p.shrimp.growth_rate, One - scaling.growth_penalty),
         death_rate |-> Mul(p.shrimp.death_rate, One + scaling.death_rate_increase)],
     environmental |->
        [ph_acidification_rate |-> Mul(p.environmental.ph_acidification_rate,
                                       One + scaling.death_rate_increase),
         rock_buffer_rate |-> Mul(p.environmental.rock_buffer_rate,
                                  One - scaling.buffer_reduction),
         water_buffer_rate |-> Mul(p.environmental.water_buffer_rate,
                                   One - scaling.buffer_reduction),
         plant_nitrogen_uptake |-> Mul(p.environmental.plant_nitrogen_uptake,
                                       One + scaling.growth_penalty)]]

SimulationParameters_validate(p) ==
    /\ ~(p.photosynthesis.base_rate <= 0)
    /\ ~(p.respiration.base_rate <= 0)
    /\ ~(p.microbial.growth_rate <= 0)
    /\ ~(p.photosynthesis.co2_efficiency > 5 * One)

\* OrganismConfig::validate: "ok" or the error kind
OrganismConfig_validate_no_zero_check(c) ==
    IF c.microbes.initial_count > 100000 THEN Err("ConfigurationError")
    ELSE IF c.worms.initial_count > 50 THEN Err("ConfigurationError")
    ELSE IF c.shrimp.initial_count > 20 THEN Err("ConfigurationError")
    ELSE IF c.plants.initial_biomass <= 0 THEN Err("ConfigurationError")
    ELSE IF c.plants.initial_biomass > 100 * Unit THEN Err("ConfigurationError")
    ELSE Ok(c)

OrganismConfig_validate(c) ==
    IF c.microbes.initial_count = 0 THEN Err("ConfigurationError")
    ELSE IF c.microbes.initial_count > 100000 THEN Err("ConfigurationError")
    ELSE IF c.worms.initial_count > 50 THEN Err("ConfigurationError")
    ELSE IF c.shrimp.initial_count > 20 THEN Err("ConfigurationError")
    ELSE IF c.plants.initial_biomass <= 0 THEN Err("ConfigurationError")
    ELSE IF c.plants.initial_biomass > 100 * Unit THEN Err("ConfigurationError")
    ELSE Ok(c)

OrganismConfig_new(microbe_count, worm_count, shrimp_count, plant_biomass) ==
    OrganismConfig_validate(
        [microbes |-> [initial_count |-> microbe_count],
         worms |-> [initial_count |-> worm_count],
         shrimp |-> [initial_count |-> shrimp_count],
         plants |-> [initial_biomass |-> plant_biomass]])

OrganismConfig_default ==
    [microbes |-> [initial_count |-> 1000],
     worms |-> [initial_count |-> 5],
     shrimp |-> [initial_count |-> 2],
     plants |-> [initial_biomass |-> 1 * Unit]]

EnvironmentConfig_new(water_volume, rocks, window_proximity, temperature, humidity, soil_type) ==
    IF ~WaterVolume_new(water_volume).ok THEN Err("NegativeValue")
    ELSE IF ~Temperature_new(temperature).ok THEN Err("TemperatureOutOfRange")
    ELSE IF ~Humidity_new(humidity).ok THEN Err("HumidityOutOfRange")
    ELSE Ok([water_volume |-> water_volume,
             rocks |-> rocks,
             window_proximity |-> window_proximity,
             initial_temperature |-> temperature,
             initial_humidity |-> humidity,
             soil_type |-> soil_type])

EnvironmentConfig_validate(e) == ~(e.window_proximity > 6) /\ ~(e.rocks > 10)

EnvironmentConfig_default_result ==
    EnvironmentConfig_new(500, 2, 3, 22 * Unit, 60 * Unit, "Balanced")

EnvironmentConfig_default == EnvironmentConfig_default_result.v

V2Config_default ==
    [organisms |-> OrganismConfig_default,
     environment |-> EnvironmentConfig_default,
     parameters |-> SimulationParameters_default,
     difficulty |-> DifficultyConfig_default]

V2Config_with_difficulty(difficulty) ==
    LET d == DifficultyConfig_new(difficulty) IN
    IF ~d.ok THEN Err(d.err)
    ELSE Ok([V2Config_default EXCEPT
                !.difficulty = d.v,
                !.parameters = apply_difficulty(SimulationParameters_default, d.v)])

V2Config_validate(config) ==
    /\ OrganismConfig_validate(config.organisms).ok
    /\ EnvironmentConfig_validate(config.environment)
    /\ SimulationParameters_validate(config.parameters)
    /\ DifficultyConfig_validate(config.difficulty)

(***************************************************************************)
(* v2/state.rs : EcosystemStateV2.                                         *)
(* A fallible step on the state returns [ok, st, err]: with ok = FALSE, st *)
(* is the state as the step left it when the error was returned.           *)
(***************************************************************************)
Done(st) == [ok |-> TRUE, st |-> st, err |-> "none"]

\* state.<field> = <constructor result>?;
Assign(st, field, r) ==
    IF r.ok THEN [ok |-> TRUE, st |-> [st EXCEPT ![field] = r.v], err |-> "none"]
    ELSE [ok |-> FALSE, st |-> st, err |-> r.err]

\* <step>?; <next step>
Then(r, NextStep(_)) == IF r.ok THEN NextStep(r.st) ELSE r

AllOk(rs) == \A i \in DOMAIN rs : rs[i].ok

EcosystemStateV2_new(config) ==
    LET plant_biomass == Biomass_new(config.organisms.plants.initial_biomass)
        microbe_pop == Population_new(config.organisms.microbes.initial_count * Unit)
        worm_pop == Population_new(config.organisms.worms.initial_count * Unit)
        shrimp_pop == Population_new(config.organisms.shrimp.initial_count * Unit)
        soil_nitrogen == Nitrogen_new(1 * Unit)
        soil_ph == Ph_new(7 * Unit)
        soil_moisture == Moisture_new(config.environment.water_volume)
        soil_aeration == Aeration_new(1 * Unit)
        detritus == Detritus_new(500)
        water_o2 == Oxygen_new(8 * Unit)
        air_n2 == Nitrogen_new(78 * Unit)
        air_o2 == Oxygen_new(21 * Unit)
        air_co2 == CarbonDioxide_new(40)
    IN  IF ~AllOk(<<plant_biomass, microbe_pop, worm_pop, shrimp_pop, soil_nitrogen,
                    soil_ph, soil_moisture, soil_aeration, detritus, water_o2,
                    air_n2, air_o2, air_co2>>)
        THEN Err("ValidationError")
        ELSE Ok([plant_biomass |-> plant_biomass.v,
                 microbe_pop |-> microbe_pop.v,
                 worm_pop |-> worm_pop.v,
                 shrimp_pop |-> shrimp_pop.v,
                 soil_nitrogen |-> soil_nitrogen.v,
                 soil_ph |-> soil_ph.v,
                 soil_moisture |-> soil_moisture.v,
                 soil_aeration |-> soil_aeration.v,
                 detritus |-> detritus.v,
                 water_liters |-> config.environment.water_volume,
                 water_o2 |-> water_o2.v,
                 air_n2 |-> air_n2.v,
                 air_o2 |-> air_o2.v,
                 air_co2 |-> air_co2.v,
                 temperature |-> config.environment.initial_temperature,
                 humidity |-> config.environment.initial_humidity,
                 rocks |-> config.environment.rocks])

\* requires config.environment.water_volume >= 0.2 (gen_range panics on an
\* empty range)
EcosystemStateV2_new_with_seed(config, seed) ==
    LET rng == seed_from_u64(seed)
        plant_biomass == Biomass_new(config.organisms.plants.initial_biomass)
        microbe_pop == Population_new(gen_range(rng, 1, 500 * Unit, 2000 * Unit))
        worm_pop == Population_new(gen_range(rng, 2, 1 * Unit, 10 * Unit))
        shrimp_pop == Population_new(gen_range(rng, 3, 1 * Unit, 5 * Unit))
        soil_nitrogen == Nitrogen_new(gen_range(rng, 4, 500, 2 * Unit))
        soil_ph == Ph_new(gen_range(rng, 5, 5500, 8500))
        soil_moisture == Moisture_new(gen_range(rng, 6, 200, config.environment.water_volume))
        soil_aeration == Aeration_new(gen_range(rng, 7, 500, 2 * Unit))
        detritus == Detritus_new(gen_range(rng, 8, 100, 2 * Unit))
        water_o2 == Oxygen_new(gen_range(rng, 9, 6 * Unit, 10 * Unit))
        air_n2 == Nitrogen_new(78 * Unit)
        air_o2 == Oxygen_new(21 * Unit)
        air_co2 == CarbonDioxide_new(40)
        temperature == Temperature_new(gen_range(rng, 10, 18 * Unit, 28 * Unit))
        humidity == Humidity_new(gen_range(rng, 11, 40 * Unit, 80 * Unit))
    IN  IF ~AllOk(<<plant_biomass, microbe_pop, worm_pop, shrimp_pop, soil_nitrogen,
                    soil_ph, soil_moisture, soil_aeration, detritus, water_o2,
                    air_n2, air_o2, air_co2, temperature, humidity>>)
        THEN Err("ValidationError")
        ELSE Ok([plant_biomass |-> plant_biomass.v,
                 microbe_pop |-> microbe_pop.v,
                 worm_pop |-> worm_pop.v,
                 shrimp_pop |-> shrimp_pop.v,
                 soil_nitrogen |-> soil_nitrogen.v,
                 soil_ph |-> soil_ph.v,
                 soil_moisture |-> soil_moisture.v,
                 soil_aeration |-> soil_aeration.v,
                 detritus |-> detritus.v,
                 water_liters |-> config.environment.water_volume,
                 water_o2 |-> water_o2.v,
                 air_n2 |-> air_n2.v,
                 air_o2 |-> air_o2.v,
                 air_co2 |-> air_co2.v,
                 temperature |-> temperature.v,
                 humidity |-> humidity.v,
                 rocks |-> config.environment.rocks])

light_level(st) == 4 * Unit

clamp_values_keeps_nitrogen(st) == Done(st)

clamp_values(st) ==
    LET total_air == st.air_o2 + st.air_co2
        remaining_n2 == Max(100 * Unit - total_air, 0)
    IN  Assign(st, "air_n2", Nitrogen_new(remaining_n2))

\* CollapseDetection for EcosystemStateV2
is_collapsed_ignores_worms(st) ==
    \/ Biomass_is_collapsed(st.plant_biomass)
    \/ Population_is_collapsed(st.microbe_pop)
    \/ Population_is_collapsed(st.shrimp_pop)

is_collapsed(st) ==
    \/ Biomass_is_collapsed(st.plant_biomass)
    \/ Population_is_collapsed(st.microbe_pop)
    \/ Population_is_collapsed(st.worm_pop)
    \/ Population_is_collapsed(st.shrimp_pop)

\* risk_factors.iter().fold(acc, |acc, &risk| acc.max(risk))
RECURSIVE FoldMax(_, _)
FoldMax(risk_factors, acc) ==
    IF risk_factors = <<>> THEN acc
    ELSE FoldMax(Tail(risk_factors), Max(acc, Head(risk_factors)))

RECURSIVE FoldSum(_, _)
FoldSum(risk_factors, acc) ==
    IF risk_factors = <<>> THEN acc
    ELSE FoldSum(Tail(risk_factors), acc + Head(risk_factors))

\* the risk factors collapse_risk pushes, in millionths
risk_factors_of(st) ==
    (IF st.plant_biomass < 100 THEN <<800000>> ELSE <<>>)
    \o (IF st.microbe_pop < 100 * Unit THEN <<900000>> ELSE <<>>)
    \o (IF st.worm_pop < 1 * Unit THEN <<600000>> ELSE <<>>)
    \o (IF st.shrimp_pop < 1 * Unit THEN <<500000>> ELSE <<>>)
    \o (IF Oxygen_is_dangerously_low(st.air_o2) THEN <<900000>> ELSE <<>>)
    \o (IF st.soil_ph < 5500 \/ st.soil_ph > 9 * Unit THEN <<800000>> ELSE <<>>)
    \o (IF ~Temperature_is_optimal(st.temperature) THEN <<300000>> ELSE <<>>)

collapse_risk_as_sum(st) == FoldSum(risk_factors_of(st), 0)

collapse_risk(st) == FoldMax(risk_factors_of(st), 0)

collapse_reasons_without_ph(st) ==
    (IF Biomass_is_collapsed(st.plant_biomass) THEN <<"PlantsDied">> ELSE <<>>)
    \o (IF Population_is_collapsed(st.microbe_pop) THEN <<"MicrobesDied">> ELSE <<>>)
    \o (IF Population_is_collapsed(st.worm_pop) THEN <<"WormsDied">> ELSE <<>>)
    \o (IF Population_is_collapsed(st.shrimp_pop) THEN <<"ShrimpDied">> ELSE <<>>)
    \o (IF Oxygen_is_dangerously_low(st.air_o2) THEN <<"OxygenDepletion">> ELSE <<>>)

collapse_reasons(st) ==
    (IF Biomass_is_collapsed(st.plant_biomass) THEN <<"PlantsDied">> ELSE <<>>)
    \o (IF Population_is_collapsed(st.microbe_pop) THEN <<"MicrobesDied">> ELSE <<>>)
    \o (IF Population_is_collapsed(st.worm_pop) THEN <<"WormsDied">> ELSE <<>>)
    \o (IF Population_is_collapsed(st.shrimp_pop) THEN <<"ShrimpDied">> ELSE <<>>)
    \o (IF Oxygen_is_dangerously_low(st.air_o2) THEN <<"OxygenDepletion">> ELSE <<>>)
    \o (IF st.soil_ph < 4 * Unit \/ st.soil_ph > 10 * Unit
        THEN <<"PhImbalance">> ELSE <<>>)

(***************************************************************************)
(* v2/organisms : plants, microbes, worms, shrimp, penalties.              *)
(***************************************************************************)
\* f32 product of a signed quantity and a non-negative multiplier
SignedMul(a, f) == IF a >= 0 THEN Mul(a, f) ELSE 0 - Mul(0 - a, f)

\* BiomassOps / GasOps (plants.rs)
Biomass_add(b, amount) == Biomass_new(b + amount)
Oxygen_add(o, amount) == Oxygen_new(o + amount)
Oxygen_subtract_unclamped(o, amount) == Oxygen_new(o - amount)
Oxygen_subtract(o, amount) == Oxygen_new(Max(o - amount, 0))
CarbonDioxide_add(c, amount) == CarbonDioxide_new(c + amount)
CarbonDioxide_subtract(c, amount) == CarbonDioxide_new(Max(c - amount, 0))
Nitrogen_add(n, amount) == Nitrogen_new(n + amount)
Nitrogen_subtract(n, amount) == Nitrogen_new(Max(n - amount, 0))

photosynthesis(st, params, dt) ==
    LET humidity_factor == humidity_efficiency(st.humidity)
        co2_factor == IF st.air_co2 >= 80 THEN 2 * One ELSE st.air_co2 * 25000
        photosynthesis_rate ==
            Mul(Mul(Mul(Mul(st.plant_biomass, params.photosynthesis.base_rate),
                        light_efficiency(light_level(st))),
                    humidity_factor),
                co2_factor)
        oxygen_production == Mul(photosynthesis_rate, dt)
        co2_consumption == Mul(oxygen_production, params.photosynthesis.co2_efficiency)
    IN  Then(Assign(st, "air_o2", Oxygen_add(st.air_o2, oxygen_production)),
             LAMBDA s : Assign(s, "air_co2",
                               CarbonDioxide_subtract(s.air_co2, co2_consumption)))

plant_respiration(st, params, dt) ==
    LET respiration_rate == Mul(st.plant_biomass, params.respiration.base_rate)
        oxygen_consumption == Mul(respiration_rate, dt)
        co2_production == Mul(oxygen_consumption, params.respiration.co2_production)
    IN  Then(Assign(st, "air_o2", Oxygen_subtract(st.air_o2, oxygen_consumption)),
             LAMBDA s : Assign(s, "air_co2", CarbonDioxide_add(s.air_co2, co2_production)))

plant_growth(st, params, dt) ==
    LET light_factor == light_efficiency(light_level(st))
        nutrient_factor == nutrient_efficiency(st.soil_nitrogen)
        humidity_factor == humidity_efficiency(st.humidity)
        competition == competition_factor(st.plant_biomass)
        growth_rate ==
            Mul(Mul(Mul(Mul(Mul(st.plant_biomass,
                                Mul(params.photosynthesis.base_rate, 300000)),
                            light_factor),
                        nutrient_factor),
                    humidity_factor),
                competition)
        biomass_increase == Mul(growth_rate, dt)
    IN  Assign(st, "plant_biomass", Biomass_add(st.plant_biomass, biomass_increase))

nitrogen_uptake(st, params, dt) ==
    LET uptake_rate == Mul(st.plant_biomass, params.environmental.plant_nitrogen_uptake)
        nitrogen_consumed == Mul(uptake_rate, dt)
    IN  Assign(st, "soil_nitrogen", Nitrogen_subtract(st.soil_nitrogen, nitrogen_consumed))

update_plants(st, params, is_day, dt) ==
    IF is_day
    THEN Then(Then(photosynthesis(st, params, dt),
                   LAMBDA s : plant_growth(s, params, dt)),
              LAMBDA s : nitrogen_uptake(s, params, dt))
    ELSE plant_respiration(st, params, dt)

nitrogen_fixation(st, params, dt) ==
    LET oxygen_factor == oxygen_efficiency(st.air_o2)
        moisture_factor == moisture_efficiency(st.soil_moisture)
        fixation_rate ==
            Mul(Mul(Mul(st.microbe_pop, params.microbial.nitrogen_fixation_rate),
                    oxygen_factor),
                moisture_factor)
        nitrogen_fixed == Mul(fixation_rate, dt)
        n2_consumed == Mul(nitrogen_fixed, 100000)
    IN  Then(Assign(st, "soil_nitrogen", Nitrogen_add(st.soil_nitrogen, nitrogen_fixed)),
             LAMBDA s : Assign(s, "air_n2", Nitrogen_new(Max(s.air_n2 - n2_consumed, 0))))

microbe_population_dynamics(st, params, dt) ==
    LET nutrient_factor == nutrient_efficiency(st.soil_nitrogen)
        moisture_factor == moisture_efficiency(st.soil_moisture)
        temperature_factor == temperature_efficiency(st.temperature)
        growth_rate ==
            Mul(Mul(Mul(Mul(st.microbe_pop, params.microbial.growth_rate),
                        nutrient_factor),
                    moisture_factor),
                temperature_factor)
        ph_factor == ph_efficiency(st.soil_ph)
        oxygen_factor == oxygen_efficiency(st.air_o2)
        death_rate ==
            Mul(Mul(Mul(st.microbe_pop, params.microbial.death_rate),
                    One - ph_factor),
                One - oxygen_factor)
        net_growth == SignedMul(growth_rate - death_rate, dt)
        new_population == Max(st.microbe_pop + net_growth, 0)
    IN  Assign(st, "microbe_pop", Population_new(new_population))

microbe_respiration(st, params, dt) ==
    LET respiration_rate == Mul(st.microbe_pop, params.microbial.respiration_rate)
        oxygen_consumption == Mul(respiration_rate, dt)
        co2_production == Mul(oxygen_consumption, params.microbial.respiration_co2_ratio)
    IN  Then(Assign(st, "air_o2", Oxygen_subtract(st.air_o2, oxygen_consumption)),
             LAMBDA s : Assign(s, "air_co2", CarbonDioxide_add(s.air_co2, co2_production)))

update_microbes(st, params, dt) ==
    Then(Then(nitrogen_fixation(st, params, dt),
              LAMBDA s : microbe_population_dynamics(s, params, dt)),
         LAMBDA s : microbe_respiration(s, params, dt))

soil_aeration(st, params, dt) ==
    LET aeration_increase == Mul(Mul(st.worm_pop, params.worm.aeration_rate), dt)
    IN  Assign(st, "soil_aeration", Aeration_new(st.soil_aeration + aeration_increase))

decomposition(st, params, dt) ==
    LET decomposition_rate == Mul(st.worm_pop, params.worm.decomposition_rate)
        detritus_consumed == Mul(decomposition_rate, dt)
        nutrients_released == Mul(detritus_consumed, 300000)
    IN  Then(Assign(st, "detritus", Detritus_new(Max(st.detritus - detritus_consumed, 0))),
             LAMBDA s : Assign(s, "soil_nitrogen",
                               Nitrogen_new(s.soil_nitrogen + nutrients_released)))

worm_population_dynamics(st, params, dt) ==
    LET detritus_factor == detritus_availability(st.detritus)
        moisture_factor == moisture_efficiency(st.soil_moisture)
        temperature_factor == temperature_efficiency(st.temperature)
        growth_rate ==
            Mul(Mul(Mul(Mul(st.worm_pop, params.worm.growth_rate),
                        detritus_factor),
                    moisture_factor),
                temperature_factor)
        death_rate == Mul(Mul(st.worm_pop, params.worm.death_rate),
                          One + toxicity_factor(0))
        net_growth == SignedMul(growth_rate - death_rate, dt)
        new_population == Max(st.worm_pop + net_growth, 0)
    IN  Assign(st, "worm_pop", Population_new(new_population))

update_worms(st, params, dt) ==
    Then(Then(soil_aeration(st, params, dt),
              LAMBDA s : decomposition(s, params, dt)),
         LAMBDA s : worm_population_dynamics(s, params, dt))

detritus_consumption(st, params, dt) ==
    LET consumption_rate == Mul(st.shrimp_pop, params.shrimp.detritus_consumption_rate)
        detritus_consumed == Mul(consumption_rate, dt)
    IN  Assign(st, "detritus", Detritus_new(Max(st.detritus - detritus_consumed, 0)))

waste_production(st, params, dt) ==
    LET waste_rate == Mul(st.shrimp_pop, params.shrimp.waste_production_rate)
        waste_produced == Mul(waste_rate, dt)
    IN  Assign(st, "soil_nitrogen", Nitrogen_new(st.soil_nitrogen + waste_produced))

shrimp_population_dynamics(st, params, dt) ==
    LET detritus_factor == detritus_availability(st.detritus)
        water_oxygen_factor == water_oxygen_efficiency(st.water_o2)
        temperature_factor == temperature_efficiency(st.temperature)
        growth_rate ==
            Mul(Mul(Mul(Mul(st.shrimp_pop, params.shrimp.growth_rate),
                        detritus_factor),
                    water_oxygen_factor),
                temperature_factor)
        death_rate == Mul(Mul(st.shrimp_pop, params.shrimp.death_rate),
                          One + toxicity_factor(0))
        net_growth == SignedMul(growth_rate - death_rate, dt)
        new_population == Max(st.shrimp_pop + net_growth, 0)
    IN  Assign(st, "shrimp_pop", Population_new(new_population))

update_shrimp(st, params, dt) ==
    Then(Then(detritus_consumption(st, params, dt),
              LAMBDA s : waste_production(s, params, dt)),
         LAMBDA s : shrimp_population_dynamics(s, params, dt))

update_all_organisms(st, params, is_day, dt) ==
    Then(Then(Then(update_plants(st, params, is_day, dt),
                   LAMBDA s : update_microbes(s, params, dt)),
              LAMBDA s : update_worms(s, params, dt)),
         LAMBDA s : update_shrimp(s, params, dt))

\* one penalty block: population * (1.0 - coefficient * penalty), floored
Penalised(value, coefficient, penalty, floor) ==
    Max(Mul(value, One - Mul(coefficient, penalty)), floor)

apply_environmental_penalties(st) ==
    LET PhBlock(s0) ==
            LET ph_penalty == ph_penalty_factor(s0.soil_ph) IN
            IF ph_penalty > 0
            THEN Then(Then(Assign(s0, "plant_biomass",
                                  Biomass_new(Penalised(s0.plant_biomass, 100000, ph_penalty, 0))),
                           LAMBDA s : Assign(s, "microbe_pop",
                                  Population_new(Penalised(s.microbe_pop, 150000, ph_penalty, 10)))),
                      LAMBDA s : Assign(s, "shrimp_pop",
                                  Population_new(Penalised(s.shrimp_pop, 200000, ph_penalty, 10))))
            ELSE Done(s0)
        OxygenBlock(s0) ==
            LET oxygen_penalty == oxygen_penalty_factor(s0.air_o2) IN
            IF oxygen_penalty > 0
            THEN Then(Then(Assign(s0, "plant_biomass",
                                  Biomass_new(Penalised(s0.plant_biomass, 100000, oxygen_penalty, 0))),
                           LAMBDA s : Assign(s, "microbe_pop",
                                  Population_new(Penalised(s.microbe_pop, 150000, oxygen_penalty, 10)))),
                      LAMBDA s : Assign(s, "worm_pop",
                                  Population_new(Penalised(s.worm_pop, 200000, oxygen_penalty, 10))))
            ELSE Done(s0)
        WaterOxygenBlock(s0) ==
            LET water_oxygen_penalty == water_oxygen_penalty_factor(s0.water_o2) IN
            IF water_oxygen_penalty > 0
            THEN Assign(s0, "shrimp_pop",
                        Population_new(Penalised(s0.shrimp_pop, 200000, water_oxygen_penalty, 10)))
            ELSE Done(s0)
    IN  Then(Then(PhBlock(st), OxygenBlock), WaterOxygenBlock)

(***************************************************************************)
(* v2/simulation_refactored.rs : one tick.                                 *)
(***************************************************************************)
update_ph_by_soil_type(st, config, dt) ==
    LET acidification == Mul(st.microbe_pop, config.parameters.environmental.ph_acidification_rate)
        rock_buffering == Mul(st.rocks * Unit, config.parameters.environmental.rock_buffer_rate)
        water_buffering ==
            IF config.environment.soil_type = "Balanced"
            THEN Mul(st.water_liters, config.parameters.environmental.water_buffer_rate)
            ELSE 0
        ph_change == SignedMul((0 - acidification) + rock_buffering + water_buffering, dt)
        new_ph == Min(Max(st.soil_ph + ph_change, 0), 14 * Unit)
    IN  Assign(st, "soil_ph", Ph_new(new_ph))

update_ph(st, config, dt) ==
    LET acidification == Mul(st.microbe_pop, config.parameters.environmental.ph_acidification_rate)
        rock_buffering == Mul(st.rocks * Unit, config.parameters.environmental.rock_buffer_rate)
        water_buffering == Mul(st.water_liters, config.parameters.environmental.water_buffer_rate)
        ph_change == SignedMul((0 - acidification) + rock_buffering + water_buffering, dt)
        new_ph == Min(Max(st.soil_ph + ph_change, 0), 14 * Unit)
    IN  Assign(st, "soil_ph", Ph_new(new_ph))

update_water_oxygen_exchange_evaporating(st, dt) ==
    LET oxygen_gradient == st.air_o2 - st.water_o2
        oxygen_transfer == SignedMul(SignedMul(oxygen_gradient, 10000), dt)
        new_water_oxygen == Max(st.water_o2 + oxygen_transfer, 0)
    IN  Then(Assign(st, "water_o2", Oxygen_new(new_water_oxygen)),
             LAMBDA s : Assign(s, "water_liters",
                               WaterVolume_new(Mul(s.water_liters, One - 10000))))

update_water_oxygen_exchange(st, dt) ==
    LET oxygen_gradient == st.air_o2 - st.water_o2
        oxygen_transfer == SignedMul(SignedMul(oxygen_gradient, 10000), dt)
        new_water_oxygen == Max(st.water_o2 + oxygen_transfer, 0)
    IN  Assign(st, "water_o2", Oxygen_new(new_water_oxygen))

update_environmental_parameters(st, config, dt) ==
    Then(update_ph(st, config, dt), LAMBDA s : update_water_oxygen_exchange(s, dt))

update_ecosystem_v2_environment_first(config, st, is_day) ==
    LET dt == One IN
    Then(Then(Then(update_environmental_parameters(st, config, dt),
                   LAMBDA s : update_all_organisms(s, config.parameters, is_day, dt)),
              apply_environmental_penalties),
         clamp_values)

update_ecosystem_v2(config, st, is_day) ==
    LET dt == One IN
    Then(Then(Then(update_all_organisms(st, config.parameters, is_day, dt),
                   LAMBDA s : update_environmental_parameters(s, config, dt)),
              apply_environmental_penalties),
         clamp_values)

(***************************************************************************)
(* v2/montecarlo.rs : the Monte Carlo harness.                             *)
(***************************************************************************)
\* generate_random_config: the configuration drawn and the generator after
\* the draws
generate_random_config(mc_config, g) ==
    LET difficulty == gen_range(g, 1, mc_config.difficulty_range[1],
                                mc_config.difficulty_range[2])
        with_difficulty == V2Config_with_difficulty(difficulty)
        base == IF with_difficulty.ok THEN with_difficulty.v ELSE V2Config_default
        e == IF mc_config.randomize_environment THEN 5 ELSE 0
        o == IF mc_config.randomize_organisms THEN 4 ELSE 0
        env_config == EnvironmentConfig_new(gen_range(g, 2, 200, 2 * Unit),
                                            gen_range(g, 3, 0, 5),
                                            gen_range(g, 4, 1, 6),
                                            gen_range(g, 5, 15 * Unit, 30 * Unit),
                                            gen_range(g, 6, 30 * Unit, 90 * Unit),
                                            "Balanced")
        with_environment ==
            IF mc_config.randomize_environment /\ env_config.ok
            THEN [base EXCEPT !.environment = env_config.v] ELSE base
        org_config == OrganismConfig_new(gen_range(g, 2 + e, 100, 5000),
                                         gen_range(g, 3 + e, 1, 15),
                                         gen_range(g, 4 + e, 1, 8),
                                         gen_range(g, 5 + e, 500, 3 * Unit))
        with_organisms ==
            IF mc_config.randomize_organisms /\ org_config.ok
            THEN [with_environment EXCEPT !.organisms = org_config.v]
            ELSE with_environment
    IN  [config |-> with_organisms, rng |-> RngAdvance(g, 1 + e + o)]

create_config_snapshot(config, mc_config) ==
    [difficulty |-> mc_config.difficulty_range[1],
     microbe_count |-> config.organisms.microbes.initial_count,
     worm_count |-> config.organisms.worms.initial_count,
     shrimp_count |-> config.organisms.shrimp.initial_count,
     water_volume |-> config.environment.water_volume,
     rocks |-> config.environment.rocks,
     window_proximity |-> config.environment.window_proximity,
     initial_temp |-> config.environment.initial_temperature,
     initial_humidity |-> config.environment.initial_humidity]

\* run_single_simulation, the initial state: seeded creation, else creation
\* from the configuration, else from the default configuration
initial_state(config, seed) ==
    LET seeded == EcosystemStateV2_new_with_seed(config, seed)
        plain == EcosystemStateV2_new(config)
    IN  IF seeded.ok THEN seeded.v
        ELSE IF plain.ok THEN plain.v
        ELSE EcosystemStateV2_new(V2Config_default).v

\* the ranges of the two loops: for run_id in 0..num_runs, for day in
\* 0..(day_cap * 2)
run_range(mc_config) == mc_config.num_runs
day_range(mc_config) == mc_config.day_cap * 2

\* run_single_simulation, one iteration of the loop on the trial
\* t = [state, days_survived, survived, collapse_reasons, tick_ok, exit];
\* exit = TRUE when the iteration ends in a break
loop_iteration_without_break(mc_config, config, t, day) ==
    LET is_day == day % 2 = 0
        r == update_ecosystem_v2(config, t.state, is_day)
        days == IF is_day THEN t.days_survived + 1 ELSE t.days_survived
    IN  IF ~r.ok
        THEN [t EXCEPT !.state = r.st, !.tick_ok = FALSE, !.exit = TRUE]
        ELSE IF is_collapsed(r.st)
        THEN [t EXCEPT !.state = r.st, !.tick_ok = TRUE,
                       !.collapse_reasons = collapse_reasons(r.st)]
        ELSE IF days >= mc_config.day_cap
        THEN [t EXCEPT !.state = r.st, !.tick_ok = TRUE, !.days_survived = days,
                       !.survived = TRUE, !.exit = TRUE]
        ELSE [t EXCEPT !.state = r.st, !.tick_ok = TRUE, !.days_survived = days]

loop_iteration(mc_config, config, t, day) ==
    LET is_day == day % 2 = 0
        r == update_ecosystem_v2(config, t.state, is_day)
        days == IF is_day THEN t.days_survived + 1 ELSE t.days_survived
    IN  IF ~r.ok
        THEN [t EXCEPT !.state = r.st, !.tick_ok = FALSE, !.exit = TRUE]
        ELSE IF is_collapsed(r.st)
        THEN [t EXCEPT !.state = r.st, !.tick_ok = TRUE,
                       !.collapse_reasons = collapse_reasons(r.st), !.exit = TRUE]
        ELSE IF days >= mc_config.day_cap
        THEN [t EXCEPT !.state = r.st, !.tick_ok = TRUE, !.days_survived = days,
                       !.survived = TRUE, !.exit = TRUE]
        ELSE [t EXCEPT !.state = r.st, !.tick_ok = TRUE, !.days_survived = days]

FinalStateSnapshot(st) ==
    [plant_biomass |-> st.plant_biomass,
     microbe_pop |-> st.microbe_pop,
     worm_pop |-> st.worm_pop,
     shrimp_pop |-> st.shrimp_pop,
     soil_ph |-> st.soil_ph,
     air_o2 |-> st.air_o2,
     temperature |-> st.temperature,
     humidity |-> st.humidity]

SimulationResult_off_by_one(id, t, snapshot) ==
    [run_id |-> id + 1,
     survived |-> t.survived,
     days_survived |-> t.days_survived,
     collapse_reasons |-> t.collapse_reasons,
     final_state |-> FinalStateSnapshot(t.state),
     config_snapshot |-> snapshot]

\* the SimulationResult run_single_simulation returns
SimulationResult(id, t, snapshot) ==
    [run_id |-> id,
     survived |-> t.survived,
     days_survived |-> t.days_survived,
     collapse_reasons |-> t.collapse_reasons,
     final_state |-> FinalStateSnapshot(t.state),
     config_snapshot |-> snapshot]

\* Option<T>
None == [some |-> FALSE, v |-> 0]
Some(x) == [some |-> TRUE, v |-> x]

\* iter().sum()
RECURSIVE Sum(_)
Sum(seq) == IF seq = <<>> THEN 0 ELSE Head(seq) + Sum(Tail(seq))

\* a as f32 / b as f32 for counts a, b >= 0, in millionths; 0/0 is NaN and
\* a/0 is infinite
f32_ratio(a, b) ==
    IF b = 0 THEN [nan |-> a = 0, inf |-> a # 0, v |-> 0]
    ELSE [nan |-> FALSE, inf |-> FALSE, v |-> (a * One) \div b]

all_results(results) == results

\* results.iter().filter(|r| r.survived).collect()
survivors_of(results) == SelectSeq(results, LAMBDA r : r.survived)

analyze_survivors(survivors) ==
    IF survivors = <<>>
    THEN [optimal_difficulty |-> None,
          optimal_microbe_count |-> None,
          optimal_environment |-> None,
          success_factors |-> <<>>]
    ELSE
    LET n == Len(survivors)
        difficulty_sum == Sum([i \in DOMAIN survivors |->
                                  survivors[i].config_snapshot.difficulty])
        microbe_sum == Sum([i \in DOMAIN survivors |->
                               survivors[i].config_snapshot.microbe_count])
        avg_microbes == (microbe_sum * Unit) \div n
        avg_water == Sum([i \in DOMAIN survivors |->
                             survivors[i].config_snapshot.water_volume]) \div n
        avg_rocks == (Sum([i \in DOMAIN survivors |->
                              survivors[i].config_snapshot.rocks]) * Unit) \div n
    IN  [optimal_difficulty |-> Some(difficulty_sum \div n),
         optimal_microbe_count |-> Some(microbe_sum \div n),
         optimal_environment |-> Some(survivors[1].config_snapshot),
         success_factors |-> <<<<"Average Microbes", avg_microbes>>,
                               <<"Average Water Volume", avg_water>>,
                               <<"Average Rocks", avg_rocks>>>>]

\* analyze_results: the aggregates of MonteCarloResults
analyze_results(results, mc_config) ==
    LET total_runs == Len(results)
        survivors == survivors_of(results)
        total_days == Sum([i \in DOMAIN results |-> results[i].days_survived])
        days == {results[i].days_survived : i \in DOMAIN results}
        failed == {i \in DOMAIN results : ~results[i].survived}
        reasons_seen == UNION {{results[i].collapse_reasons[j] :
                                   j \in DOMAIN results[i].collapse_reasons} :
                               i \in failed}
    IN  [survival_rate |-> f32_ratio(Len(survivors), total_runs),
         average_days_survived |-> f32_ratio(total_days, total_runs),
         survival_histogram |->
            [d \in days |-> Cardinality({i \in DOMAIN results :
                                            results[i].days_survived = d})],
         collapse_reasons_frequency |->
            [r \in reasons_seen |->
                Cardinality({i \in failed :
                    \E j \in DOMAIN results[i].collapse_reasons :
                        results[i].collapse_reasons[j] = r})],
         survivor_analysis |-> analyze_survivors(survivors)]

(***************************************************************************)
(* State of the model.                                                     *)
(*   config, state   the V2Config and EcosystemStateV2 of the current      *)
(*                   trial; tick_count ticks were applied to state, the    *)
(*                   last one returned Ok iff tick_ok, on is_day = last_day*)
(*   call            a call of a pure operation: its name, arguments,      *)
(*                   whether it has returned, and the returned value       *)
(*   mc_config ...   the Monte Carlo harness (run_monte_carlo_v2)          *)
(*   aggregate       the aggregates analyze_results returned               *)
(*   run_seed        run_single_simulation's local seed                    *)
(*   rng_borrower    the run that last held &mut rng (-1: none yet)        *)
(***************************************************************************)
VARIABLES config, state, tick_count, tick_ok, last_day,
          call,
          mc_config, rng, results, run_id, pc,
          day, days_survived, survived, reasons, config_snapshot, collapse_seen,
          aggregate, run_seed, rng_borrower

trial_vars == <<config, state, tick_count, tick_ok, last_day>>
mc_vars == <<mc_config, rng, results, run_id, pc,
             day, days_survived, survived, reasons, config_snapshot, collapse_seen,
             aggregate, run_seed, rng_borrower>>
vars == <<config, state, tick_count, tick_ok, last_day, call,
          mc_config, rng, results, run_id, pc,
          day, days_survived, survived, reasons, config_snapshot, collapse_seen,
          aggregate, run_seed, rng_borrower>>

\* ---------------------------------------------------------------- bounds
MaxTicks == 5
MaxRuns == 2
MaxDayCap == 11

\* ---------------------------------------------------------------- inputs
MicrobeCounts == {1000, 100000}
WormCounts == {0, 5}
ShrimpCounts == {2}
PlantBiomasses == {1 * Unit}
DifficultyLevels == {0, 500000, One}
Seeds == {7, 42}

\* the value of a successful result, as a set
Values(r) == IF r.ok THEN {r.v} ELSE {}

OrganismChoices ==
    UNION {Values(OrganismConfig_new(m, w, s, b)) :
              m \in MicrobeCounts, w \in WormCounts,
              s \in ShrimpCounts, b \in PlantBiomasses}

EnvironmentChoices ==
    {e \in Values(EnvironmentConfig_default_result)
            \cup Values(EnvironmentConfig_new(2 * Unit, 10, 1, 30 * Unit, 90 * Unit, "Porous"))
       : EnvironmentConfig_validate(e)}

\* parameters no difficulty level yields but V2Config::validate accepts: every
\* worm dies within a tick
LethalParameters ==
    [SimulationParameters_default EXCEPT !.worm.death_rate = One]

ParameterChoices ==
    UNION {Values(V2Config_with_difficulty(d)) : d \in DifficultyLevels}
    \cup {[V2Config_default EXCEPT !.parameters = LethalParameters]}

ValidConfigs ==
    {c \in {[p EXCEPT !.organisms = o, !.environment = e] :
               p \in ParameterChoices, o \in OrganismChoices, e \in EnvironmentChoices}
       : V2Config_validate(c)}

CreatedStates(c) ==
    Values(EcosystemStateV2_new(c))
    \cup UNION {Values(EcosystemStateV2_new_with_seed(c, seed)) : seed \in Seeds}

DefaultState == EcosystemStateV2_new(V2Config_default).v

NoCall == [fn |-> "none", arg |-> <<>>, done |-> FALSE, ret |-> 0]

IdleTrial ==
    /\ config = V2Config_default
    /\ state = DefaultState
    /\ tick_count = 0
    /\ tick_ok = TRUE
    /\ last_day = FALSE

NoAggregate == [returned |-> FALSE]

IdleHarness ==
    /\ mc_config = [num_runs |-> 0, day_cap |-> 0, difficulty_range |-> <<0, 0>>,
                    randomize_environment |-> FALSE, randomize_organisms |-> FALSE]
    /\ rng = 0
    /\ results = <<>>
    /\ run_id = 0
    /\ day = 0
    /\ days_survived = 0
    /\ survived = FALSE
    /\ reasons = <<>>
    /\ config_snapshot = 0
    /\ collapse_seen = FALSE
    /\ aggregate = NoAggregate
    /\ run_seed = 0
    /\ rng_borrower = -1

(***************************************************************************)
(* Spec: a state created from a valid configuration, ticked by a caller    *)
(* with any day/night sequence (update_ecosystem_v2 as an interface).      *)
(***************************************************************************)
Init ==
    /\ config \in ValidConfigs
    /\ state \in CreatedStates(config)
    /\ tick_count = 0
    /\ tick_ok = TRUE
    /\ last_day = FALSE
    /\ call = NoCall
    /\ pc = "api"
    /\ IdleHarness

Tick(is_day) ==
    /\ pc = "api"
    /\ tick_count < MaxTicks
    /\ LET r == update_ecosystem_v2(config, state, is_day) IN
        /\ state' = r.st
        /\ tick_ok' = r.ok
    /\ last_day' = is_day
    /\ tick_count' = tick_count + 1
    /\ UNCHANGED <<config, call, mc_vars>>

Next == \E is_day \in BOOLEAN : Tick(is_day)

Spec == Init /\ [][Next]_vars

(***************************************************************************)
(* SpecFn: calls of the pure operations (collapse detection, the validated *)
(* constructors of v2/types.rs, OrganismConfig::new).  Init draws the      *)
(* call and its arguments, the action applies the operation.               *)
(***************************************************************************)
CollapseProbes == {1, 10, 11, 5 * Unit}

\* states differing in the four collapse quantities and, in the second
\* family, in every other field as well
CollapseInputs ==
    {[base EXCEPT !.plant_biomass = b, !.microbe_pop = m,
                  !.worm_pop = w, !.shrimp_pop = s] :
        base \in {DefaultState,
                  [DefaultState EXCEPT !.soil_nitrogen = 0, !.soil_ph = 0,
                       !.soil_moisture = 0, !.soil_aeration = 0, !.detritus = 0,
                       !.water_liters = 0, !.water_o2 = 0, !.air_n2 = 0,
                       !.air_o2 = 0, !.air_co2 = 100 * Unit,
                       !.temperature = 60 * Unit, !.humidity = 0, !.rocks = 0]},
        b \in {0} \cup CollapseProbes, m \in CollapseProbes,
        w \in CollapseProbes, s \in {10, 11}}

QuantityTypes ==
    {"Biomass", "Population", "Ph", "Temperature", "Humidity", "Oxygen",
     "CarbonDioxide", "Nitrogen", "WaterVolume", "Moisture", "Aeration", "Detritus"}

QuantityValues ==
    {0 - 50 * Unit - 1, 0 - 50 * Unit, 0 - 1, 0, 1, 7 * Unit,
     14 * Unit, 14 * Unit + 1, 60 * Unit, 60 * Unit + 1, 100 * Unit, 100 * Unit + 1}

\* <type>::new(value)
Quantity_new(type, value) ==
    CASE type = "Biomass" -> Biomass_new(value)
      [] type = "Population" -> Population_new(value)
      [] type = "Ph" -> Ph_new(value)
      [] type = "Temperature" -> Temperature_new(value)
      [] type = "Humidity" -> Humidity_new(value)
      [] type = "Oxygen" -> Oxygen_new(value)
      [] type = "CarbonDioxide" -> CarbonDioxide_new(value)
      [] type = "Nitrogen" -> Nitrogen_new(value)
      [] type = "WaterVolume" -> WaterVolume_new(value)
      [] type = "Moisture" -> Moisture_new(value)
      [] type = "Aeration" -> Aeration_new(value)
      [] type = "Detritus" -> Detritus_new(value)

OrganismInputs ==
    {<<m, w, s, b>> : m \in {0, 1, 100000, 100001}, w \in {0, 50, 51},
                      s \in {0, 20, 21}, b \in {0, 1, 100 * Unit, 100 * Unit + 1}}

\* difficulty levels of [0,1]: the ends, neighbours and values between
DifficultyProbes == {0, 1, 100000, 333333, 500000, 500001, 999999, One}

\* base parameters apply_difficulty is applied to
BaseParameters ==
    <<SimulationParameters_default,
      LethalParameters,
      [SimulationParameters_default EXCEPT
          !.photosynthesis.base_rate = 1, !.respiration.base_rate = 1,
          !.microbial.growth_rate = 1, !.microbial.death_rate = 0,
          !.shrimp.growth_rate = 3 * One, !.worm.growth_rate = 0,
          !.environmental.rock_buffer_rate = 0,
          !.environmental.ph_acidification_rate = 999]>>

\* states on both sides of every condition collapse_reasons tests
ReasonInputs ==
    {[DefaultState EXCEPT !.plant_biomass = b, !.microbe_pop = m, !.worm_pop = w,
                          !.shrimp_pop = p, !.air_o2 = o, !.soil_ph = h] :
        b \in {10, 11}, m \in {10, 11}, w \in {10, 11}, p \in {10, 11},
        o \in {5 * Unit - 1, 5 * Unit},
        h \in {4 * Unit - 1, 4 * Unit, 10 * Unit, 10 * Unit + 1}}

\* states on both sides of every condition collapse_risk tests
RiskInputs ==
    {[DefaultState EXCEPT !.plant_biomass = b, !.microbe_pop = m, !.worm_pop = w,
                          !.shrimp_pop = p, !.air_o2 = o, !.soil_ph = h,
                          !.temperature = t] :
        b \in {99, 100}, m \in {100 * Unit - 1, 100 * Unit},
        w \in {1 * Unit - 1, 1 * Unit}, p \in {1 * Unit - 1, 1 * Unit},
        o \in {5 * Unit - 1, 5 * Unit},
        h \in {5500 - 1, 5500, 9 * Unit, 9 * Unit + 1},
        t \in {20 * Unit - 1, 20 * Unit, 28 * Unit, 28 * Unit + 1}}

\* states at the start of a tick: as created, or with soil_ph set to 6.0
TickInputs(c) ==
    CreatedStates(c) \cup {[st EXCEPT !.soil_ph = 6 * Unit] : st \in CreatedStates(c)}

\* states around the three penalty thresholds, with populations above and
\* below the 0.01 floor of the penalty blocks
PenaltyInputs ==
    {[DefaultState EXCEPT !.soil_ph = ph, !.air_o2 = o2, !.water_o2 = w,
                          !.microbe_pop = p[1], !.worm_pop = p[2],
                          !.shrimp_pop = p[2]] :
        ph \in {3 * Unit, 6500 - 1, 6500, 7 * Unit},
        o2 \in {0, 5 * Unit - 1, 5 * Unit, 21 * Unit},
        w \in {0, 5 * Unit - 1, 5 * Unit, 8 * Unit},
        p \in {<<1000 * Unit, 5 * Unit>>, <<5, 5>>}}

\* states with air oxygen above and below the plants' respiration demand
PlantInputs ==
    {[DefaultState EXCEPT !.air_o2 = o2, !.plant_biomass = b, !.air_co2 = c] :
        o2 \in {0, 1, 2, 21 * Unit},
        b \in {0, 500, 1 * Unit, 5 * Unit},
        c \in {0, 40}}

\* temperatures in [-50, 60] and pH values in [0, 14]; a degree or a pH unit
\* is the least distance from the optimum probed
TemperatureProbes ==
    {0 - 50 * Unit, 0 - 34 * Unit, 0 - 20 * Unit, 0, 10 * Unit, 23 * Unit,
     24 * Unit, 25 * Unit, 40 * Unit, 60 * Unit}
PhProbes == {0, 3 * Unit, 6 * Unit, 7 * Unit, 8 * Unit, 11 * Unit, 14 * Unit}

\* the arguments of the calls that leave the state alone
PureCallInputs ==
       \/ /\ state = DefaultState
          /\ \E t \in TemperatureProbes :
                call = [fn |-> "temperature_efficiency", arg |-> <<t>>,
                        done |-> FALSE, ret |-> 0]
       \/ /\ state = DefaultState
          /\ \E p \in PhProbes :
                call = [fn |-> "ph_efficiency", arg |-> <<p>>,
                        done |-> FALSE, ret |-> 0]
       \/ /\ state \in CollapseInputs
          /\ call = [fn |-> "is_collapsed", arg |-> <<>>, done |-> FALSE, ret |-> 0]
       \/ /\ state = DefaultState
          /\ \E type \in QuantityTypes, value \in QuantityValues :
                call = [fn |-> type, arg |-> <<value>>, done |-> FALSE, ret |-> 0]
       \/ /\ state = DefaultState
          /\ \E a \in OrganismInputs :
                call = [fn |-> "OrganismConfig", arg |-> a, done |-> FALSE, ret |-> 0]
       \/ /\ state \in ReasonInputs
          /\ call = [fn |-> "collapse_reasons", arg |-> <<>>, done |-> FALSE, ret |-> 0]
       \/ /\ state \in RiskInputs
          /\ call = [fn |-> "collapse_risk", arg |-> <<>>, done |-> FALSE, ret |-> 0]
       \/ /\ state = DefaultState
          /\ \E d1 \in DifficultyProbes, d2 \in DifficultyProbes, b \in DOMAIN BaseParameters :
                /\ d1 <= d2
                /\ call = [fn |-> "apply_difficulty", arg |-> <<d1, d2, b>>,
                           done |-> FALSE, ret |-> 0]

InitFn ==
    /\ pc = "fn"
    /\ tick_count = 0
    /\ tick_ok = TRUE
    /\ last_day = FALSE
    /\ IdleHarness
    /\ \/ /\ config = V2Config_default
          /\ state \in PenaltyInputs
          /\ call = [fn |-> "apply_environmental_penalties", arg |-> <<state>>,
                     done |-> FALSE, ret |-> 0]
       \/ /\ config \in Values(V2Config_with_difficulty(0))
                        \cup Values(V2Config_with_difficulty(One))
          /\ state \in PlantInputs
          /\ \E is_day \in BOOLEAN :
                call = [fn |-> "update_plants", arg |-> <<is_day, state>>,
                        done |-> FALSE, ret |-> 0]
       \/ /\ config \in ValidConfigs
          /\ state = DefaultState
          /\ call = [fn |-> "EcosystemStateV2_new", arg |-> <<config>>,
                     done |-> FALSE, ret |-> 0]
       \/ /\ config \in ValidConfigs
          /\ state \in TickInputs(config)
          /\ \E is_day \in BOOLEAN :
                call = [fn |-> "update_ecosystem_v2", arg |-> <<is_day, state>>,
                        done |-> FALSE, ret |-> 0]
       \/ /\ config = V2Config_default
          /\ PureCallInputs

\* update_ecosystem_v2(&config, &mut state, is_day)
Call_update_ecosystem_v2 ==
    /\ pc = "fn"
    /\ call.fn = "update_ecosystem_v2"
    /\ ~call.done
    /\ LET r == update_ecosystem_v2(config, state, call.arg[1]) IN
        /\ state' = r.st
        /\ tick_ok' = r.ok
        /\ call' = [call EXCEPT !.done = TRUE, !.ret = r.ok]
    /\ UNCHANGED <<config, tick_count, last_day, mc_vars>>

\* apply_environmental_penalties(&mut state)
Call_apply_environmental_penalties ==
    /\ pc = "fn"
    /\ call.fn = "apply_environmental_penalties"
    /\ ~call.done
    /\ LET r == apply_environmental_penalties(state) IN
        /\ state' = r.st
        /\ call' = [call EXCEPT !.done = TRUE, !.ret = r.ok]
    /\ UNCHANGED <<config, tick_count, tick_ok, last_day, mc_vars>>

\* update_plants(&mut state, &config.parameters, is_day, 1.0)
Call_update_plants ==
    /\ pc = "fn"
    /\ call.fn = "update_plants"
    /\ ~call.done
    /\ LET r == update_plants(state, config.parameters, call.arg[1], One) IN
        /\ state' = r.st
        /\ call' = [call EXCEPT !.done = TRUE, !.ret = r.ok]
    /\ UNCHANGED <<config, tick_count, tick_ok, last_day, mc_vars>>

\* temperature_efficiency(Temperature::new(t).unwrap()): the value to the
\* millionth, and whether the f32 is 0.0
Call_temperature_efficiency ==
    /\ pc = "fn"
    /\ call.fn = "temperature_efficiency"
    /\ ~call.done
    /\ Temperature_new(call.arg[1]).ok
    /\ call' = [call EXCEPT
                  !.done = TRUE,
                  !.ret = [v |-> temperature_efficiency(call.arg[1]),
                           zero |-> exp_is_zero(
                                SquaredOver(Abs(call.arg[1] - 24 * Unit), 32))]]
    /\ UNCHANGED <<trial_vars, mc_vars>>

\* ph_efficiency(Ph::new(p).unwrap())
Call_ph_efficiency ==
    /\ pc = "fn"
    /\ call.fn = "ph_efficiency"
    /\ ~call.done
    /\ Ph_new(call.arg[1]).ok
    /\ call' = [call EXCEPT
                  !.done = TRUE,
                  !.ret = [v |-> ph_efficiency(call.arg[1]),
                           zero |-> exp_is_zero(
                                SquaredOver(Abs(call.arg[1] - 7 * Unit), 8))]]
    /\ UNCHANGED <<trial_vars, mc_vars>>

\* EcosystemStateV2::new(&config)
Call_EcosystemStateV2_new ==
    /\ pc = "fn"
    /\ call.fn = "EcosystemStateV2_new"
    /\ ~call.done
    /\ LET r == EcosystemStateV2_new(config) IN
        /\ state' = IF r.ok THEN r.v ELSE state
        /\ call' = [call EXCEPT !.done = TRUE, !.ret = r.ok]
    /\ UNCHANGED <<config, tick_count, tick_ok, last_day, mc_vars>>

Call_is_collapsed ==
    /\ pc = "fn"
    /\ call.fn = "is_collapsed"
    /\ ~call.done
    /\ call' = [call EXCEPT !.done = TRUE, !.ret = is_collapsed(state)]
    /\ UNCHANGED <<trial_vars, mc_vars>>

Call_Quantity_new ==
    /\ pc = "fn"
    /\ call.fn \in QuantityTypes
    /\ ~call.done
    /\ call' = [call EXCEPT !.done = TRUE, !.ret = Quantity_new(call.fn, call.arg[1])]
    /\ UNCHANGED <<trial_vars, mc_vars>>

Call_OrganismConfig_new ==
    /\ pc = "fn"
    /\ call.fn = "OrganismConfig"
    /\ ~call.done
    /\ call' = [call EXCEPT !.done = TRUE,
                  !.ret = OrganismConfig_new(call.arg[1], call.arg[2],
                                             call.arg[3], call.arg[4])]
    /\ UNCHANGED <<trial_vars, mc_vars>>

\* apply_difficulty on the same base parameters at two difficulty levels
Call_apply_difficulty ==
    /\ pc = "fn"
    /\ call.fn = "apply_difficulty"
    /\ ~call.done
    /\ LET base == BaseParameters[call.arg[3]]
           at(d) == apply_difficulty(base, DifficultyConfig_new(d).v)
       IN  call' = [call EXCEPT !.done = TRUE,
                                !.ret = <<at(call.arg[1]), at(call.arg[2])>>]
    /\ UNCHANGED <<trial_vars, mc_vars>>

Call_collapse_reasons ==
    /\ pc = "fn"
    /\ call.fn = "collapse_reasons"
    /\ ~call.done
    /\ call' = [call EXCEPT !.done = TRUE, !.ret = collapse_reasons(state)]
    /\ UNCHANGED <<trial_vars, mc_vars>>

Call_collapse_risk ==
    /\ pc = "fn"
    /\ call.fn = "collapse_risk"
    /\ ~call.done
    /\ call' = [call EXCEPT !.done = TRUE, !.ret = collapse_risk(state)]
    /\ UNCHANGED <<trial_vars, mc_vars>>

NextFn ==
    \/ Call_EcosystemStateV2_new
    \/ Call_temperature_efficiency
    \/ Call_ph_efficiency
    \/ Call_update_plants
    \/ Call_apply_environmental_penalties
    \/ Call_update_ecosystem_v2
    \/ Call_is_collapsed
    \/ Call_Quantity_new
    \/ Call_OrganismConfig_new
    \/ Call_apply_difficulty
    \/ Call_collapse_reasons
    \/ Call_collapse_risk

SpecFn == InitFn /\ [][NextFn]_vars

(***************************************************************************)
(* SpecMC: run_monte_carlo_v2 on a batch configuration.  pc is the         *)
(* position of the harness: "start" before a run (or before the return),   *)
(* "loop" inside run_single_simulation's loop, "finish" after it, "done"   *)
(* after the return, "panicked" after a panic unwound the call.  The loops *)
(* stop being followed after MaxRuns runs and 2 * MaxDayCap ticks.         *)
(***************************************************************************)
\* the default range, the whole range, a range with_difficulty rejects, and
\* an empty range
DifficultyRanges ==
    {<<300000, 700000>>, <<0, One>>, <<1500000, 2 * One>>, <<700000, 300000>>}

\* StdRng::from_entropy()
EntropyStates == {1, 30}

\* the caps of run_v2_montecarlo (src/montecarlo.rs)
MAX_RUNS == 100000
MAX_DAY_CAP == 1000

BatchConfigs ==
    {[num_runs |-> n, day_cap |-> d, difficulty_range |-> r,
      randomize_environment |-> f[1], randomize_organisms |-> f[2]] :
        n \in {0, 1, MaxRuns, 2 * MAX_RUNS},
        d \in {0, 1, 2, MaxDayCap, 2 * MAX_DAY_CAP},
        r \in DifficultyRanges,
        f \in {<<TRUE, TRUE>>, <<FALSE, TRUE>>, <<FALSE, FALSE>>}}

Trial ==
    [state |-> state, days_survived |-> days_survived, survived |-> survived,
     collapse_reasons |-> reasons, tick_ok |-> tick_ok, exit |-> FALSE]

InitMC ==
    /\ pc = "start"
    /\ mc_config \in BatchConfigs
    /\ rng \in EntropyStates
    /\ results = <<>>
    /\ run_id = 0
    /\ day = 0
    /\ days_survived = 0
    /\ survived = FALSE
    /\ reasons = <<>>
    /\ config_snapshot = create_config_snapshot(V2Config_default, mc_config)
    /\ collapse_seen = FALSE
    /\ aggregate = NoAggregate
    /\ run_seed = 0
    /\ rng_borrower = -1
    /\ call = NoCall
    /\ IdleTrial

\* run_single_simulation up to its loop
StartRun ==
    /\ pc = "start"
    /\ run_id < run_range(mc_config)
    /\ run_id < MaxRuns
    /\ mc_config.difficulty_range[1] <= mc_config.difficulty_range[2]
    /\ LET g == generate_random_config(mc_config, rng)
           s == gen_u64(g.rng, 1)
       IN  /\ config' = g.config
           /\ config_snapshot' = create_config_snapshot(g.config, mc_config)
           /\ run_seed' = s
           /\ state' = initial_state(g.config, s)
           /\ rng' = RngAdvance(g.rng, 1)
    /\ rng_borrower' = run_id
    /\ day' = 0
    /\ days_survived' = 0
    /\ survived' = FALSE
    /\ reasons' = <<>>
    /\ collapse_seen' = FALSE
    /\ tick_count' = 0
    /\ tick_ok' = TRUE
    /\ last_day' = FALSE
    /\ pc' = "loop"
    /\ UNCHANGED <<mc_config, results, run_id, call, aggregate>>

\* generate_random_config: rng.gen_range panics on an empty range, and the
\* panic unwinds run_single_simulation and run_monte_carlo_v2
StartRunPanics ==
    /\ pc = "start"
    /\ run_id < run_range(mc_config)
    /\ run_id < MaxRuns
    /\ mc_config.difficulty_range[1] > mc_config.difficulty_range[2]
    /\ pc' = "panicked"
    /\ UNCHANGED <<trial_vars, call, mc_config, rng, results, run_id,
                   day, days_survived, survived, reasons, config_snapshot,
                   collapse_seen, aggregate, run_seed, rng_borrower>>

\* one iteration of the loop
TrialTick ==
    /\ pc = "loop"
    /\ day < day_range(mc_config)
    /\ day < 2 * MaxDayCap
    /\ LET t == loop_iteration(mc_config, config, Trial, day) IN
        /\ state' = t.state
        /\ tick_ok' = t.tick_ok
        /\ days_survived' = t.days_survived
        /\ survived' = t.survived
        /\ reasons' = t.collapse_reasons
        /\ collapse_seen' = (collapse_seen \/ (t.tick_ok /\ is_collapsed(t.state)))
        /\ pc' = IF t.exit THEN "finish" ELSE "loop"
        /\ day' = IF t.exit THEN day ELSE day + 1
    /\ last_day' = (day % 2 = 0)
    /\ tick_count' = tick_count + 1
    /\ UNCHANGED <<config, call, mc_config, rng, results, run_id, config_snapshot,
                   aggregate, run_seed, rng_borrower>>

\* the loop's range is exhausted
LoopExit ==
    /\ pc = "loop"
    /\ day >= day_range(mc_config)
    /\ pc' = "finish"
    /\ UNCHANGED <<trial_vars, call, mc_config, rng, results, run_id,
                   day, days_survived, survived, reasons, config_snapshot,
                   collapse_seen, aggregate, run_seed, rng_borrower>>

\* run_single_simulation returns; results.push(result)
FinishRun ==
    /\ pc = "finish"
    /\ results' = Append(results, SimulationResult(run_id, Trial, config_snapshot))
    /\ run_id' = run_id + 1
    /\ pc' = "start"
    /\ UNCHANGED <<trial_vars, call, mc_config, rng,
                   day, days_survived, survived, reasons, config_snapshot,
                   collapse_seen, aggregate, run_seed, rng_borrower>>

\* the runs are over: analyze_results(results, mc_config)
Analyze ==
    /\ pc = "start"
    /\ run_id >= run_range(mc_config)
    /\ aggregate' = analyze_results(results, mc_config)
    /\ pc' = "done"
    /\ UNCHANGED <<trial_vars, call, mc_config, rng, results, run_id,
                   day, days_survived, survived, reasons, config_snapshot,
                   collapse_seen, run_seed, rng_borrower>>

NextMC ==
    StartRun \/ StartRunPanics \/ TrialTick \/ LoopExit \/ FinishRun \/ Analyze

SpecMC == InitMC /\ [][NextMC]_vars

(***************************************************************************)
(* Properties of a ticked state (Spec).                                    *)
(***************************************************************************)
\* every field of st is inside the domain its type declares
DomainValid(st) ==
    /\ st.microbe_pop > 0 /\ st.worm_pop > 0 /\ st.shrimp_pop > 0
    /\ st.plant_biomass >= 0
    /\ st.air_o2 >= 0 /\ st.water_o2 >= 0
    /\ st.air_co2 >= 0
    /\ st.air_n2 >= 0 /\ st.soil_nitrogen >= 0
    /\ st.soil_moisture >= 0 /\ st.soil_aeration >= 0 /\ st.detritus >= 0
    /\ st.water_liters >= 0
    /\ 0 <= st.soil_ph /\ st.soil_ph <= 14 * Unit
    /\ 0 <= st.humidity /\ st.humidity <= 100 * Unit
    /\ 0 - 50 * Unit <= st.temperature /\ st.temperature <= 60 * Unit

\* C1: for every valid configuration and every sequence of day/night ticks
\* applied to a state created from it, every quantity of the state is inside
\* its declared domain after each tick (and at creation), whether the tick
\* returned Ok or an error.
C1_DomainInvariant == pc = "api" => DomainValid(state)

\* C1 witness: a second or later tick returned an error and left the state
\* as it was at the failing step.
C1_Witness ==
    /\ pc = "api"
    /\ tick_count >= 2
    /\ ~tick_ok
    /\ state.air_co2 > 0

AirSum(st) == st.air_o2 + st.air_co2 + st.air_n2

\* C8 (as stated): after the clamp step of every tick that completed, air
\* O2 + CO2 + N2 is 100, or less than 100 only with a share floored at 0;
\* it never exceeds 100.
C8_AirSumAtMost100 ==
    (pc = "api" /\ tick_count > 0 /\ tick_ok) =>
        /\ AirSum(state) <= 100 * Unit
        /\ (AirSum(state) < 100 * Unit =>
                (state.air_o2 = 0 \/ state.air_co2 = 0 \/ state.air_n2 = 0))

\* the configuration's parameters are those V2Config::with_difficulty yields
\* for its difficulty level
FromWithDifficulty(c) ==
    LET made == V2Config_with_difficulty(c.difficulty.level)
    IN  made.ok /\ c.parameters = made.v.parameters

\* C12: for a configuration obtained from V2Config::with_difficulty(d), d in
\* [0,1], with validated environment and organism settings, every day or
\* night tick on a state reached by ticks from EcosystemStateV2::new or
\* new_with_seed returns Ok.
C12_TickAlwaysOk ==
    (pc = "api" /\ FromWithDifficulty(config)) => tick_ok

\* C12 witness: at the hardest level, several ticks, the last at night, have
\* been applied to a state whose air oxygen is used up: respiration asked
\* for more oxygen than there was and the tick still returned Ok.
C12_Witness ==
    /\ pc = "api"
    /\ FromWithDifficulty(config)
    /\ config.difficulty.level = One
    /\ tick_count >= 3
    /\ ~last_day
    /\ tick_ok
    /\ state.air_o2 = 0

(***************************************************************************)
(* Properties of the pure operations (SpecFn).                             *)
(***************************************************************************)
Returned(fns) == pc = "fn" /\ call.done /\ call.fn \in fns

\* C2: is_collapsed(state) is true iff at least one of plant biomass, microbe
\* population, worm population, shrimp population is <= 0.01; exactly 0.01
\* counts as collapsed and no other field of the state matters.
C2_IsCollapsedIff ==
    Returned({"is_collapsed"}) =>
        (call.ret <=> \E q \in {"plant_biomass", "microbe_pop", "worm_pop", "shrimp_pop"} :
                          state[q] <= 10)

\* C2 witness: only the worm population is at the threshold, exactly 0.01,
\* every other field of the state is at an extreme, and the state is
\* reported collapsed.
C2_Witness ==
    /\ Returned({"is_collapsed"})
    /\ call.ret = TRUE
    /\ state.worm_pop = 10
    /\ state.plant_biomass > 10 /\ state.microbe_pop > 10 /\ state.shrimp_pop > 10
    /\ state.air_o2 = 0

\* the domain each quantity type declares
InDomain(type, v) ==
    CASE type = "Population" -> v > 0
      [] type = "Ph" -> 0 <= v /\ v <= 14 * Unit
      [] type = "Humidity" -> 0 <= v /\ v <= 100 * Unit
      [] type = "Temperature" -> 0 - 50 * Unit <= v /\ v <= 60 * Unit
      [] OTHER -> v >= 0

\* C9: each validated constructor returns Ok exactly for the values inside
\* the type's domain and a ValidationError otherwise, and on success the
\* stored value equals the argument.
C9_ConstructorDomain ==
    Returned(QuantityTypes) =>
        /\ call.ret.ok <=> InDomain(call.fn, call.arg[1])
        /\ call.ret.ok => call.ret.v = call.arg[1]
        /\ ~call.ret.ok => call.ret.err \in ValidationError

\* C9 witness: Temperature::new at the upper end of its domain, 60, is Ok and
\* stores 60.
C9_Witness ==
    /\ Returned({"Temperature"})
    /\ call.arg[1] = 60 * Unit
    /\ call.ret.ok
    /\ call.ret.v = 60 * Unit

\* C10: OrganismConfig::new rejects a microbe count of 0 or above 100,000 with
\* a ConfigurationError, and a count in 1..=100,000 is accepted whenever the
\* other three arguments are acceptable.
C10_MicrobeCountBounds ==
    Returned({"OrganismConfig"}) =>
        LET m == call.arg[1]
            others_ok == /\ call.arg[2] <= 50
                         /\ call.arg[3] <= 20
                         /\ 0 < call.arg[4] /\ call.arg[4] <= 100 * Unit
        IN  /\ (m = 0 \/ m > 100000) =>
                    (~call.ret.ok /\ call.ret.err = "ConfigurationError")
            /\ (1 <= m /\ m <= 100000 /\ others_ok) =>
                    (call.ret.ok /\ call.ret.v.microbes.initial_count = m)

\* C10 witness: a microbe count of 0 with otherwise acceptable arguments is
\* rejected with a ConfigurationError.
C10_Witness ==
    /\ Returned({"OrganismConfig"})
    /\ call.arg = <<0, 50, 20, 1>>
    /\ ~call.ret.ok
    /\ call.ret.err = "ConfigurationError"

\* C11: for difficulty levels d1 <= d2 applied to the same base parameters,
\* the photosynthesis base rate, the three growth rates and the rock and
\* water buffer rates at d2 are <= those at d1, and the respiration base
\* rate, the three death rates and the pH acidification rate at d2 are >=
\* those at d1.
C11_DifficultyMonotone ==
    Returned({"apply_difficulty"}) =>
        LET p1 == call.ret[1]
            p2 == call.ret[2]
        IN  /\ p2.photosynthesis.base_rate <= p1.photosynthesis.base_rate
            /\ p2.microbial.growth_rate <= p1.microbial.growth_rate
            /\ p2.worm.growth_rate <= p1.worm.growth_rate
            /\ p2.shrimp.growth_rate <= p1.shrimp.growth_rate
            /\ p2.environmental.rock_buffer_rate <= p1.environmental.rock_buffer_rate
            /\ p2.environmental.water_buffer_rate <= p1.environmental.water_buffer_rate
            /\ p2.respiration.base_rate >= p1.respiration.base_rate
            /\ p2.microbial.death_rate >= p1.microbial.death_rate
            /\ p2.worm.death_rate >= p1.worm.death_rate
            /\ p2.shrimp.death_rate >= p1.shrimp.death_rate
            /\ p2.environmental.ph_acidification_rate
                   >= p1.environmental.ph_acidification_rate

\* C11 witness: the default parameters at levels 0.5 and 1.0: growth is
\* strictly lower and death strictly higher at the higher level.
C11_Witness ==
    /\ Returned({"apply_difficulty"})
    /\ call.arg = <<500000, One, 1>>
    /\ call.ret[2].worm.growth_rate < call.ret[1].worm.growth_rate
    /\ call.ret[2].worm.death_rate > call.ret[1].worm.death_rate
    /\ call.ret[2].environmental.water_buffer_rate
           < call.ret[1].environmental.water_buffer_rate

\* the triggering conditions that hold in st, by the reason each one names
TriggeredReasons(st) ==
    {r \in {"PlantsDied", "MicrobesDied", "WormsDied", "ShrimpDied",
            "OxygenDepletion", "PhImbalance"} :
        \/ r = "PlantsDied" /\ st.plant_biomass <= 10
        \/ r = "MicrobesDied" /\ st.microbe_pop <= 10
        \/ r = "WormsDied" /\ st.worm_pop <= 10
        \/ r = "ShrimpDied" /\ st.shrimp_pop <= 10
        \/ r = "OxygenDepletion" /\ st.air_o2 < 5 * Unit
        \/ r = "PhImbalance" /\ (st.soil_ph < 4 * Unit \/ st.soil_ph > 10 * Unit)}

\* C13: collapse_reasons(state) lists exactly the triggering conditions that
\* hold, each once; it is empty iff the state is not collapsed and shows no
\* imbalance (air O2 below 5, pH below 4 or above 10), so a collapsed state
\* has a non-empty list.
C13_ReasonsComplete ==
    Returned({"collapse_reasons"}) =>
        /\ {call.ret[i] : i \in DOMAIN call.ret} = TriggeredReasons(state)
        /\ Len(call.ret) = Cardinality(TriggeredReasons(state))
        /\ call.ret = <<>> <=>
                (/\ ~is_collapsed(state)
                 /\ ~(state.air_o2 < 5 * Unit)
                 /\ ~(state.soil_ph < 4 * Unit \/ state.soil_ph > 10 * Unit))
        /\ is_collapsed(state) => call.ret # <<>>

\* C13 witness: a state that is not collapsed and whose only imbalance is a
\* pH just above 10 reports exactly PhImbalance.
C13_Witness ==
    /\ Returned({"collapse_reasons"})
    /\ ~is_collapsed(state)
    /\ state.soil_ph = 10 * Unit + 1
    /\ state.air_o2 = 5 * Unit
    /\ call.ret = <<"PhImbalance">>

\* the weights of the risk conditions that hold in st, in millionths
RiskWeights(st) ==
    {w \in {300000, 500000, 600000, 800000, 900000} :
        \/ w = 800000 /\ st.plant_biomass < 100
        \/ w = 900000 /\ st.microbe_pop < 100 * Unit
        \/ w = 600000 /\ st.worm_pop < 1 * Unit
        \/ w = 500000 /\ st.shrimp_pop < 1 * Unit
        \/ w = 900000 /\ st.air_o2 < 5 * Unit
        \/ w = 800000 /\ (st.soil_ph < 5500 \/ st.soil_ph > 9 * Unit)
        \/ w = 300000 /\ (st.temperature < 20 * Unit \/ st.temperature > 28 * Unit)}

\* C14: collapse_risk(state) is the maximum of the weights of the risk
\* conditions that hold, 0 when none holds, and lies in [0,1].
C14_RiskIsMaximum ==
    Returned({"collapse_risk"}) =>
        /\ RiskWeights(state) = {} => call.ret = 0
        /\ RiskWeights(state) # {} =>
                /\ call.ret \in RiskWeights(state)
                /\ \A w \in RiskWeights(state) : w <= call.ret
        /\ 0 <= call.ret /\ call.ret <= One

\* C14 witness: worms below 1, shrimp below 1 and a temperature outside
\* [20,28] hold together (weights 0.6, 0.5, 0.3) and the risk is 0.6.
C14_Witness ==
    /\ Returned({"collapse_risk"})
    /\ RiskWeights(state) = {300000, 500000, 600000}
    /\ call.ret = 600000

(***************************************************************************)
(* Properties of the Monte Carlo harness (SpecMC).                         *)
(***************************************************************************)
\* C3 (as stated): a trial ends Collapsed (survived = FALSE, some tick left
\* a population at or below 0.01) or SurvivedToCap (survived = TRUE), never
\* both and never neither, and survived holds iff days_survived has reached
\* day_cap and no executed tick ended collapsed.
C3_TwoOutcomes ==
    pc = "finish" =>
        /\ survived <=> (days_survived >= mc_config.day_cap /\ ~collapse_seen)
        /\ survived \/ collapse_seen
        /\ ~(survived /\ collapse_seen)

LastResult == results[Len(results)]

C5_RequestClamped ==
    pc \in {"start", "loop", "finish", "done"} =>
        /\ run_range(mc_config) = Min(mc_config.num_runs, MAX_RUNS)
        /\ day_range(mc_config) = Min(mc_config.day_cap, MAX_DAY_CAP) * 2

Survivors == {i \in DOMAIN results : results[i].survived}

\* C15 (as stated): the survival_rate a batch returns is the number of
\* results with survived = TRUE divided by the number of results, a number
\* in [0,1], for every batch size.
C15_SurvivalRate ==
    pc = "done" =>
        /\ ~aggregate.survival_rate.nan
        /\ ~aggregate.survival_rate.inf
        /\ 0 <= aggregate.survival_rate.v
        /\ aggregate.survival_rate.v <= One
        /\ Len(results) > 0 =>
                aggregate.survival_rate.v
                    = (Cardinality(Survivors) * One) \div Len(results)

\* the total of a config_snapshot field over the runs of S
RECURSIVE SnapshotTotal(_, _)
SnapshotTotal(S, field) ==
    IF S = {} THEN 0
    ELSE LET i == CHOOSE x \in S : TRUE
         IN  results[i].config_snapshot[field] + SnapshotTotal(S \ {i}, field)

\* C16: the survivor analysis is computed from exactly the runs with
\* survived = TRUE: the averages of the recorded microbe count, water
\* volume, rocks and difficulty are means over those runs only, and when
\* no run survived every optional field is None and the success-factor
\* list is empty.
C16_SurvivorsOnly ==
    pc = "done" =>
        LET a == aggregate.survivor_analysis
            n == Cardinality(Survivors)
        IN  IF n = 0
            THEN /\ ~a.optimal_difficulty.some
                 /\ ~a.optimal_microbe_count.some
                 /\ ~a.optimal_environment.some
                 /\ a.success_factors = <<>>
            ELSE /\ a.optimal_difficulty
                        = Some(SnapshotTotal(Survivors, "difficulty") \div n)
                 /\ a.optimal_microbe_count
                        = Some(SnapshotTotal(Survivors, "microbe_count") \div n)
                 /\ a.optimal_environment.some
                 /\ \E i \in Survivors :
                        a.optimal_environment.v = results[i].config_snapshot
                 /\ a.success_factors =
                        <<<<"Average Microbes",
                            (SnapshotTotal(Survivors, "microbe_count") * Unit) \div n>>,
                          <<"Average Water Volume",
                            SnapshotTotal(Survivors, "water_volume") \div n>>,
                          <<"Average Rocks",
                            (SnapshotTotal(Survivors, "rocks") * Unit) \div n>>>>

\* C16 witness: a batch of two runs returned, only the second survived, and
\* the two runs had different microbe counts; the analysis reports the
\* survivor's.
C16_Witness ==
    /\ pc = "done"
    /\ Len(results) = 2
    /\ Survivors = {2}
    /\ results[1].config_snapshot.microbe_count
           # results[2].config_snapshot.microbe_count
    /\ aggregate.survivor_analysis.optimal_microbe_count
           = Some(results[2].config_snapshot.microbe_count)


\* C17: the result a run records carries the seed from which the run's
\* initial state was constructed
C17_SeedRecorded ==
    (pc \in {"start", "done"} /\ results # <<>>) =>
        LET r == results[Len(results)] IN
            /\ "seed" \in DOMAIN r
            /\ r.seed = run_seed


\* the difficulty generate_random_config draws from the generator g
drawn_difficulty(g) ==
    gen_range(g, 1, mc_config.difficulty_range[1], mc_config.difficulty_range[2])

\* C18: whenever a run is due, the run is entered: a failure to build its
\* configuration or its initial state never ends the batch; a run whose
\* drawn difficulty is rejected runs on the default parameters and
\* difficulty, and its state is the seeded one or, failing that, the one
\* created from the configuration or from the default configuration.
C18_FallbackAndContinue ==
    [][(pc = "start" /\ run_id < run_range(mc_config)) =>
        /\ pc' = "loop"
        /\ ~V2Config_with_difficulty(drawn_difficulty(rng)).ok =>
            /\ config'.parameters = V2Config_default.parameters
            /\ config'.difficulty = V2Config_default.difficulty
        /\ \/ state' \in Values(EcosystemStateV2_new_with_seed(config', run_seed'))
           \/ state' \in Values(EcosystemStateV2_new(config'))
           \/ state' = DefaultState]_vars


\* C19: the generator from which a run draws its configuration and seed has
\* been advanced by no other run of the batch
C19_GeneratorNotShared ==
    [][(pc = "start" /\ pc' = "loop") => rng_borrower \in {-1, run_id}]_vars


\* the steps of one tick, in order
TickOrder ==
    <<"plants", "microbes", "worms", "shrimp", "ph", "water_oxygen",
      "penalties", "clamp">>

RunStep(step, st, is_day) ==
    CASE step = "plants" -> update_plants(st, config.parameters, is_day, One)
      [] step = "microbes" -> update_microbes(st, config.parameters, One)
      [] step = "worms" -> update_worms(st, config.parameters, One)
      [] step = "shrimp" -> update_shrimp(st, config.parameters, One)
      [] step = "ph" -> update_ph(st, config, One)
      [] step = "water_oxygen" -> update_water_oxygen_exchange(st, One)
      [] step = "penalties" -> apply_environmental_penalties(st)
      [] step = "clamp" -> clamp_values(st)

\* each step on the state the previous one left, up to the first error
RECURSIVE RunSteps(_, _, _)
RunSteps(steps, r, is_day) ==
    IF steps = <<>> \/ ~r.ok THEN r
    ELSE RunSteps(Tail(steps), RunStep(Head(steps), r.st, is_day), is_day)

\* C20: a tick is the steps plants, microbes, worms, shrimp, pH, water-oxygen
\* exchange, penalties, clamp, each applied to the state the previous step
\* left; after a successful tick the state is as clamp leaves it.
C20_TickOrder ==
    [][(pc = "api" /\ tick_count' = tick_count + 1) =>
        LET r == RunSteps(TickOrder, Done(state), last_day') IN
            /\ tick_ok' = r.ok
            /\ state' = r.st
            /\ tick_ok' => clamp_values(state') = Done(state')]_vars

\* C20 witness: ticks have succeeded in which the organisms changed the air
\* and clamp, last, recomputed the nitrogen share from it
C20_Witness ==
    /\ pc = "api"
    /\ tick_count = MaxTicks
    /\ tick_ok
    /\ state.air_n2 # 78 * Unit
    /\ state.air_n2 = Max(100 * Unit - (state.air_o2 + state.air_co2), 0)


\* C21: after every successful tick atmospheric nitrogen is
\* max(0, 100 - air O2 - air CO2) of the post-tick oxygen and CO2, whatever
\* it was before the tick and whatever microbial fixation took from it.
C21_NitrogenIsRemainder ==
    (pc = "api" /\ tick_count > 0 /\ tick_ok) =>
        state.air_n2 = Max(100 * Unit - (state.air_o2 + state.air_co2), 0)

\* C21 witness: after one successful tick with microbes fixing nitrogen the
\* atmospheric nitrogen is above the 78 it was created with
C21_Witness ==
    /\ pc = "api"
    /\ tick_count = 1
    /\ tick_ok
    /\ state.microbe_pop > 0
    /\ state.air_n2 > 78 * Unit


\* the state of a tick as it enters the penalty step
BeforePenalties(st, is_day) ==
    RunSteps(SubSeq(TickOrder, 1, 6), Done(st), is_day).st

\* C22 (as stated): a successful tick that starts with soil_ph = 6.0 and
\* meets no oxygen penalty multiplies plant biomass by 1 - 0.10 * penalty,
\* the penalty being the one of the pH value 6.0, (6.5 - 6.0) / 6.5.
C22_PenaltyOfStartPh ==
    (pc = "fn" /\ call.fn = "update_ecosystem_v2" /\ call.done /\ tick_ok
        /\ call.arg[2].soil_ph = 6 * Unit) =>
        LET before == BeforePenalties(call.arg[2], call.arg[1]) IN
            oxygen_penalty_factor(before.air_o2) = 0 =>
                state.plant_biomass =
                    Penalised(before.plant_biomass, 100000,
                              ph_penalty_factor(6 * Unit), 0)


Populations == {"plant_biomass", "microbe_pop", "worm_pop", "shrimp_pop"}

\* the populations the penalties of the state st apply to
Penalised_populations(st) ==
    (IF st.soil_ph < 6500 THEN {"plant_biomass", "microbe_pop", "shrimp_pop"} ELSE {})
    \cup (IF st.air_o2 < 5 * Unit THEN {"plant_biomass", "microbe_pop", "worm_pop"} ELSE {})
    \cup (IF st.water_o2 < 5 * Unit THEN {"shrimp_pop"} ELSE {})

\* C23 (as stated): apply_environmental_penalties leaves unchanged every
\* population no holding condition lists (pH < 6.5: plants, microbes, shrimp;
\* air O2 < 5.0: plants, microbes, worms; water O2 < 5.0: shrimp), changes
\* nothing else, and never increases a population.
C23_PenaltyFrame ==
    (pc = "fn" /\ call.fn = "apply_environmental_penalties" /\ call.done) =>
        LET before == call.arg[1] IN
            /\ call.ret
            /\ \A f \in DOMAIN state :
                    f \notin Penalised_populations(before) => state[f] = before[f]
            /\ \A f \in Populations : state[f] <= before[f]


\* C24 (as stated): update_plants at night leaves plant biomass and soil
\* nitrogen unchanged, lowers air O2 by respiration.base_rate * biomass * dt,
\* and raises air CO2 by the oxygen consumed * co2_production.
C24_NightRespiration ==
    (pc = "fn" /\ call.fn = "update_plants" /\ call.done /\ ~call.arg[1]) =>
        LET before == call.arg[2]
            oxygen_consumed == before.air_o2 - state.air_o2
        IN  /\ call.ret
            /\ state.plant_biomass = before.plant_biomass
            /\ state.soil_nitrogen = before.soil_nitrogen
            /\ oxygen_consumed =
                    Mul(before.plant_biomass, config.parameters.respiration.base_rate)
            /\ state.air_co2 - before.air_co2 =
                    Mul(oxygen_consumed, config.parameters.respiration.co2_production)


\* C25 (as stated): temperature_efficiency is at most its value at 24, with
\* equality only at 24, and ph_efficiency at most its value at 7, with
\* equality only at 7; both results lie in (0,1].
C25_SingleOptimum ==
    (pc = "fn" /\ call.fn \in {"temperature_efficiency", "ph_efficiency"}
        /\ call.done) =>
        LET optimum == IF call.fn = "ph_efficiency" THEN 7 * Unit ELSE 24 * Unit
            at_optimum == IF call.fn = "ph_efficiency"
                          THEN ph_efficiency(optimum)
                          ELSE temperature_efficiency(optimum)
        IN  /\ call.ret.v <= at_optimum
            /\ call.ret.v = at_optimum => call.arg[1] = optimum
            /\ ~call.ret.zero
            /\ call.ret.v <= One


\* C26 (as stated): for every configuration V2Config::validate accepts (its
\* organisms accepted by OrganismConfig::validate), EcosystemStateV2::new
\* returns Ok and the state created is not collapsed.
C26_ValidConfigCreates ==
    (pc = "fn" /\ call.fn = "EcosystemStateV2_new" /\ call.done
        /\ V2Config_validate(config)) =>
        /\ call.ret
        /\ ~is_collapsed(state)


\* C27 (as stated): when a run enters its loop, the microbe, worm and shrimp
\* populations, the temperature and the humidity of its state are the values
\* its ConfigSnapshot records.
C27_SnapshotIsInitialState ==
    (pc = "loop" /\ tick_count = 0) =>
        /\ state.microbe_pop = config_snapshot.microbe_count * Unit
        /\ state.worm_pop = config_snapshot.worm_count * Unit
        /\ state.shrimp_pop = config_snapshot.shrimp_count * Unit
        /\ state.temperature = config_snapshot.initial_temp
        /\ state.humidity = config_snapshot.initial_humidity


\* C28 (as stated): a tick that returns an error leaves the state exactly as
\* it was before the call.
C28_FailedTickRestores ==
    [][(pc = "api" /\ tick_count' = tick_count + 1 /\ ~tick_ok') =>
            state' = state]_vars


FrameFields == {"temperature", "humidity", "water_liters", "soil_moisture", "rocks"}

\* C29: no tick, successful or failed, changes temperature, humidity, water
\* volume, soil moisture or rock count, so after any sequence of ticks they
\* are as at creation; water volume and rock count are the configured ones.
C29_TickFrame ==
    /\ [][(pc = "api" /\ tick_count' = tick_count + 1) =>
            \A f \in FrameFields : state'[f] = state[f]]_vars
    /\ [](pc = "api" =>
            /\ state.water_liters = config.environment.water_volume
            /\ state.rocks = config.environment.rocks)

\* C29 witness: MaxTicks ticks have run on a seeded state (its temperature
\* is not the configured one) and have changed the air and the soil
C29_Witness ==
    /\ pc = "api"
    /\ tick_count = MaxTicks
    /\ state.temperature # config.environment.initial_temperature
    /\ state.air_o2 # 21 * Unit
    /\ state.soil_ph # 7 * Unit
    /\ state.water_liters = config.environment.water_volume


\* the configurations that differ from c at most in window proximity and
\* soil type
SameButLightAndSoil(c) ==
    {[c EXCEPT !.environment.window_proximity = w, !.environment.soil_type = soil] :
        w \in {0, 6}, soil \in {"Porous", "NonPorous"}}

====
